---- MODULE Spec2Model ----
(***************************************************************************)
(* ts_export: the module-tree walk of process.rs (Process, ProcessModule,  *)
(* extractor) and the type solvers of solvers/array.rs, solvers/path.rs    *)
(* and type_solving/solvers/collections.rs, with the rendering of types.rs.*)
(***************************************************************************)
EXTENDS Naturals, Sequences, FiniteSets, TLC

VARIABLES
    content,      \* Process.content: the items syn::parse_file yields for it
    pc,           \* position of Process::launch
    all_results,  \* launch's local Vec<ProcessModuleResultData>, not yet delivered
    sink,         \* the export_module calls the Exporter has received, in order
    ret,          \* what Process::launch returned
    ty,           \* TypeInfo.ty of the solver call under study
    generics,     \* TypeInfo.generics: the generic parameter names in scope
    op,           \* which solver entry point was called
    out,          \* the SolverResult it returned
    target,       \* the target-type value whose Display is under study
    text,         \* what its to_string() returned
    self_entries, \* self.entries of the PathSolver under study
    added         \* the add_entry calls made on it, in order

vars == <<content, pc, all_results, sink, ret, ty, generics, op, out, target, text, self_entries, added>>
procVars == <<content, pc, all_results, sink, ret>>
solveVars == <<ty, generics, op, out>>
renderVars == <<target, text>>
pathVars == <<self_entries, added>>

(***************************************************************************)
(* Bounds.                                                                 *)
(***************************************************************************)
\* items in the whole module tree of one input (nested modules included)
MaxItems == 4
\* nodes of one source type expression
MaxTypeNodes == 3
\* levels of composite target types above a type without components
MaxNesting == 1
\* members of one tuple, union, argument list, type body or parameter list
MaxMembers == 2
\* add_entry calls made on one PathSolver by its owner
MaxAdded == 2
\* nodes of the source type expression a PathSolver of any entries is asked about
MaxPathTypeNodes == 2

(***************************************************************************)
(* Result<T, TsExportError> and Option<T>.                                 *)
(***************************************************************************)
NoError == [kind |-> "none", path |-> <<>>, ident |-> 0]
Ok(v) == [ok |-> TRUE, v |-> v, e |-> NoError]
Err(e) == [ok |-> FALSE, v |-> <<>>, e |-> e]
Some(v) == [some |-> TRUE, v |-> v]
None == [some |-> FALSE, v |-> <<>>]

ParseError == [kind |-> "parse", path |-> <<>>, ident |-> 0]
ResolveError(path, ident) == [kind |-> "resolve", path |-> path, ident |-> ident]

(***************************************************************************)
(* syn::Item as process.rs reads it.  kind is the Item variant; ident the  *)
(* declared name (here the position it was written at in its module).      *)
(*   Type   : attr "ok" | "err"   - whether the exporter resolves it       *)
(*   Struct, Enum : attr "ok" | "err" | "nocontainer" - the last when      *)
(*            Container::from_ast yields None for it                       *)
(*   Mod    : attr "inline" (content is Some), "file" (bodiless, the       *)
(*            spawner finds it: items is what it supplies), "absent"       *)
(*            (bodiless, the spawner declines)                             *)
(*   Other  : any other item (use, fn, impl, ...)                          *)
(***************************************************************************)
\* the (kind, attr) an item can have
Labels ==
    { <<"Type", a>> : a \in {"ok", "err"} }
    \cup { <<"Struct", a>> : a \in {"ok", "err", "nocontainer"} }
    \cup { <<"Enum", "ok">>, <<"Other", "-">> }
    \cup { <<"Mod", a>> : a \in {"inline", "file", "absent"} }

\* A module tree of n items written down in source order: depth[i] is how many
\* modules enclose the i-th item, label[i] its (kind, attr).
Shapes(n) ==
    { d \in [1..n -> 0..(n - 1)] :
        /\ n > 0 => d[1] = 0
        /\ \A i \in 1..(n - 1) : d[i + 1] <= d[i] + 1 }

\* only a module with a body (its own or its file's) holds items
WellFormed(n, depth, label) ==
    \A i \in 1..(n - 1) :
        depth[i + 1] = depth[i] + 1 => label[i] \in {<<"Mod", "inline">>, <<"Mod", "file">>}

\* the last item of lo..hi that lies inside the item at lo
SubtreeEnd(depth, lo, hi) ==
    CHOOSE e \in lo..hi :
        /\ \A k \in (lo + 1)..e : depth[k] > depth[lo]
        /\ e = hi \/ depth[e + 1] <= depth[lo]

\* the item list written at lo..hi, its first item declared at position ident
RECURSIVE Items(_, _, _, _, _)
Items(depth, label, lo, hi, ident) ==
    IF lo > hi THEN <<>>
    ELSE LET e == SubtreeEnd(depth, lo, hi) IN
         << [kind |-> label[lo][1], attr |-> label[lo][2], ident |-> ident,
             items |-> Items(depth, label, lo + 1, e, 1)] >>
         \o Items(depth, label, e + 1, hi, ident + 1)

(***************************************************************************)
(* ProcessModule::launch                                                   *)
(***************************************************************************)
\* items.into_iter().enumerate(): 0-based index with each item
Enumerate(items) == [i \in 1..Len(items) |-> [index |-> i - 1, item |-> items[i]]]

IsDerive(p) == p.item.kind \in {"Enum", "Struct"}
IsAlias(p) == p.item.kind = "Type"
IsMod(it) == it.kind = "Mod"

derive_inputs(items) == SelectSeq(Enumerate(items), IsDerive)
type_aliases(items) == SelectSeq(Enumerate(items), IsAlias)
mod_declarations(items) == SelectSeq(items, IsMod)

\* ProcessSpawner::create_process(path) for the bodiless module item_mod
create_process_declined_as_empty(path, item_mod) ==
    Some([path |-> path, items |-> IF item_mod.attr = "file" THEN item_mod.items ELSE <<>>])

create_process(path, item_mod) ==
    IF item_mod.attr = "file"
    THEN Some([path |-> path, items |-> item_mod.items])
    ELSE None

\* the filter_map closure over mod_declarations
ChildProcess(current_path, item_mod) ==
    LET path == Append(current_path, item_mod.ident) IN
    IF item_mod.attr = "inline"
    THEN Some([path |-> path, items |-> item_mod.items])
    ELSE create_process(path, item_mod)

\* Container::from_ast(&ctxt, &derive_input, Derive::Serialize)
ContainerFromAst(p) == IF p.item.attr = "nocontainer" THEN None ELSE Some(p)

RECURSIVE FilterMapContainers(_)
FilterMapContainers(ps) ==
    IF ps = <<>> THEN <<>>
    ELSE LET c == ContainerFromAst(Head(ps)) IN
         (IF c.some THEN <<c.v>> ELSE <<>>) \o FilterMapContainers(Tail(ps))

\* an ExportStatement: the exported declaration's name and what it was made from
Statement(item) == [name |-> item.ident, of |-> item.kind]

\* ExporterContext::export_statements_from_type_alias / _from_container
export_statements_from_type_alias(path, item) ==
    IF item.attr = "ok" THEN Ok(<<Statement(item)>>) ELSE Err(ResolveError(path, item.ident))

export_statements_from_container(path, item) ==
    IF item.attr = "ok" THEN Ok(<<Statement(item)>>) ELSE Err(ResolveError(path, item.ident))

\* the two lazy maps chained and collected into Result<Vec<(usize, Vec<_>)>, _>:
\* the first Err ends the collection
RECURSIVE CollectStatements(_, _, _)
CollectStatements(path, aliases, containers) ==
    IF aliases = <<>> /\ containers = <<>> THEN Ok(<<>>)
    ELSE LET fromAlias == aliases # <<>>
             p == IF fromAlias THEN Head(aliases) ELSE Head(containers)
             r == IF fromAlias THEN export_statements_from_type_alias(path, p.item)
                  ELSE export_statements_from_container(path, p.item)
         IN IF ~r.ok THEN Err(r.e)
            ELSE LET rest == IF fromAlias THEN CollectStatements(path, Tail(aliases), containers)
                             ELSE CollectStatements(path, aliases, Tail(containers))
                 IN IF ~rest.ok THEN rest
                    ELSE Ok(<<[index |-> p.index, statements |-> r.v]>> \o rest.v)

\* statements.sort_by_key(|(index, _)| *index): a stable sort
RECURSIVE InsertByIndex(_, _)
InsertByIndex(sorted, e) ==
    IF sorted = <<>> THEN <<e>>
    ELSE IF Head(sorted).index <= e.index
         THEN <<Head(sorted)>> \o InsertByIndex(Tail(sorted), e)
         ELSE <<e>> \o sorted

RECURSIVE SortByKeyFrom(_, _)
SortByKeyFrom(sorted, rest) ==
    IF rest = <<>> THEN sorted
    ELSE SortByKeyFrom(InsertByIndex(sorted, Head(rest)), Tail(rest))

sort_by_key_omitted(statements) == statements

sort_by_key(statements) == SortByKeyFrom(<<>>, statements)

\* into_iter().flat_map(|(_, statements)| statements.into_iter()).collect()
RECURSIVE FlatMap(_)
FlatMap(indexed) ==
    IF indexed = <<>> THEN <<>> ELSE Head(indexed).statements \o FlatMap(Tail(indexed))

RECURSIVE LaunchModule(_, _)
RECURSIVE LaunchChildren(_, _)
RECURSIVE LaunchChildrenSkipErr(_, _)

\* mod_declarations ... filter_map ... map(launch) ... collect::<Result<_, _>>()?
\* with every failed child left out instead
LaunchChildrenSkipErr(current_path, mods) ==
    IF mods = <<>> THEN Ok(<<>>)
    ELSE LET proc == ChildProcess(current_path, Head(mods))
             rest == LaunchChildrenSkipErr(current_path, Tail(mods))
         IN IF ~proc.some THEN rest
            ELSE LET r == LaunchModule(proc.v.path, proc.v.items)
                 IN IF ~r.ok THEN rest ELSE Ok(<<r.v>> \o rest.v)

\* mod_declarations ... filter_map ... map(launch) ... collect::<Result<_, _>>()?
LaunchChildren(current_path, mods) ==
    IF mods = <<>> THEN Ok(<<>>)
    ELSE LET proc == ChildProcess(current_path, Head(mods))
         IN IF ~proc.some THEN LaunchChildren(current_path, Tail(mods))
            ELSE LET r == LaunchModule(proc.v.path, proc.v.items)
                 IN IF ~r.ok THEN Err(r.e)
                    ELSE LET rest == LaunchChildren(current_path, Tail(mods))
                         IN IF ~rest.ok THEN rest ELSE Ok(<<r.v>> \o rest.v)

\* ProcessModule::launch for the module at current_path holding items
LaunchModule(current_path, items) ==
    LET children == LaunchChildren(current_path, mod_declarations(items))
    IN IF ~children.ok THEN Err(children.e)
       ELSE LET containers == FilterMapContainers(derive_inputs(items))
                collected == CollectStatements(current_path, type_aliases(items), containers)
            IN IF ~collected.ok THEN Err(collected.e)
               ELSE Ok([data |-> [statements |-> FlatMap(sort_by_key(collected.v)),
                                  path |-> current_path],
                        children |-> children.v])

(***************************************************************************)
(* extractor and Process::launch                                           *)
(***************************************************************************)
RECURSIVE extractorPreOrder(_)
RECURSIVE ExtractPreOrderEach(_)
ExtractPreOrderEach(children) ==
    IF children = <<>> THEN <<>>
    ELSE extractorPreOrder(Head(children)) \o ExtractPreOrderEach(Tail(children))

extractorPreOrder(iter) == <<iter.data>> \o ExtractPreOrderEach(iter.children)

RECURSIVE extractorSkipEmpty(_)
RECURSIVE ExtractSkipEmptyEach(_)
ExtractSkipEmptyEach(children) ==
    IF children = <<>> THEN <<>>
    ELSE extractorSkipEmpty(Head(children)) \o ExtractSkipEmptyEach(Tail(children))

extractorSkipEmpty(iter) ==
    ExtractSkipEmptyEach(iter.children)
    \o (IF iter.data.statements = <<>> THEN <<>> ELSE <<iter.data>>)

RECURSIVE extractor(_)
RECURSIVE ExtractEach(_)
\* iter.children.into_iter().for_each(|child| extractor(all, child))
ExtractEach(children) ==
    IF children = <<>> THEN <<>>
    ELSE extractor(Head(children)) \o ExtractEach(Tail(children))

\* what extractor(all, iter) pushes onto all, in order
extractor(iter) == ExtractEach(iter.children) \o <<iter.data>>


(***************************************************************************)
(* Source type expressions (syn::Type) and TypeInfo.                       *)
(*   k "Path": name is the path as DisplayPath prints it, args the type    *)
(*             arguments of its last segment (none: no angle brackets)     *)
(*   k "Array", "Slice", "Reference": args = <<the element type>>          *)
(*   k "Tuple": args are the elements;  k "Never": any other syn::Type     *)
(***************************************************************************)
SeqNames ==
    {"std::vec::Vec", "std::collections::VecDeque", "std::collections::HashSet",
     "std::collections::LinkedList", "std::collections::BTreeSet",
     "std::collections::BinaryHeap"}
MapNames == {"std::collections::HashMap", "std::collections::BTreeMap"}

\* (k, name, number of arguments) a node of a type expression can have
TypeLabels ==
    { <<"Path", n, 0>> : n \in {"u32", "std::string::String", "T", "Foo",
                                "chrono::NaiveDate", "std::vec::Vec"} }
    \cup { <<"Tuple", "", a>> : a \in 0..2 }
    \cup { <<"Never", "", 0>> }
    \cup { <<k, "", 1>> : k \in {"Array", "Slice", "Reference"} }
    \cup { <<"Path", n, 1>> : n \in SeqNames \cup {"std::option::Option",
                                                   "std::collections::HashMap", "Vec"} }
    \cup { <<"Path", n, 2>> : n \in MapNames \cup {"std::vec::Vec"} }
    \cup { <<"Path", "std::collections::HashMap", 3>> }

\* a type expression of n nodes written in prefix order, depth[i] the nesting
TypeShapes(n) ==
    { d \in [1..n -> 0..(n - 1)] :
        /\ d[1] = 0
        /\ \A i \in 2..n : d[i] >= 1 /\ d[i] <= d[i - 1] + 1 }

ArgCount(n, depth, i) ==
    Cardinality({ k \in (i + 1)..SubtreeEnd(depth, i, n) : depth[k] = depth[i] + 1 })

WellFormedType(n, depth, label) == \A i \in 1..n : ArgCount(n, depth, i) = label[i][3]

RECURSIVE TypeAt(_, _, _, _)
RECURSIVE TypesAt(_, _, _, _)
TypeAt(depth, label, lo, hi) ==
    [k |-> label[lo][1], name |-> label[lo][2], args |-> TypesAt(depth, label, lo + 1, hi)]

TypesAt(depth, label, lo, hi) ==
    IF lo > hi THEN <<>>
    ELSE LET e == SubtreeEnd(depth, lo, hi) IN
         <<TypeAt(depth, label, lo, e)>> \o TypesAt(depth, label, e + 1, hi)

(***************************************************************************)
(* Target types (types.rs) and their rendering.                            *)
(***************************************************************************)
Predefined(name) == [k |-> "Predefined", name |-> name, args |-> <<>>]
TypeReference(name, args) == [k |-> "TypeReference", name |-> name, args |-> args]
ArrayType(primary) == [k |-> "ArrayType", name |-> "", args |-> <<primary>>]
TupleType(types) == [k |-> "TupleType", name |-> "", args |-> types]
UnionType(types) == [k |-> "UnionType", name |-> "", args |-> types]
NoType == [k |-> "None", name |-> "", args |-> <<>>]

\* TsType::PrimaryType(_) as against TsType::UnionType(_)
IsPrimaryType(t) == t.k # "UnionType"

\* ObjectType { body }, TypeBody { members }, PropertySignature { name, optional,
\* inner_type }, PropertyName::{Identifier, StringLiteral}, TypeParameters
NoBody == [some |-> FALSE, v |-> [members |-> <<>>]]
ObjectType(body) == [k |-> "ObjectType", name |-> "", args |-> <<>>, body |-> body]
TypeBody(members) == [members |-> members]
PropertySignature(name, optional, inner_type) ==
    [name |-> name, optional |-> optional, inner_type |-> inner_type]
Identifier(s) == [kind |-> "Identifier", text |-> s]
StringLiteral(s) == [kind |-> "StringLiteral", text |-> s]
TypeParameters(identifiers) == [identifiers |-> identifiers]

RECURSIVE Render(_)
RECURSIVE Join(_, _)
RECURSIVE JoinText(_, _)
RECURSIVE RenderTypeBody(_)
\* askama's join filter over the rendered members
Join(types, sep) ==
    IF types = <<>> THEN ""
    ELSE IF Len(types) = 1 THEN Render(types[1])
    ELSE Render(types[1]) \o sep \o Join(Tail(types), sep)

\* askama's join filter over texts
JoinText(texts, sep) ==
    IF texts = <<>> THEN ""
    ELSE IF Len(texts) = 1 THEN texts[1]
    ELSE texts[1] \o sep \o JoinText(Tail(texts), sep)

\* Display of a StringLiteral: the text between double quotes
RenderStringLiteral(s) == "\"" \o s \o "\""

\* Display of a PropertyName
RenderPropertyName(name) ==
    IF name.kind = "StringLiteral" THEN RenderStringLiteral(name.text) ELSE name.text

\* PropertySignature's template with the optional marker left out
RenderPropertySignatureNoMarker(p) ==
    RenderPropertyName(p.name) \o ": " \o Render(p.inner_type)

\* Display of a PropertySignature: {{ name }}{% if optional %}?{% endif %}: {{ inner_type }}
RenderPropertySignature(p) ==
    RenderPropertyName(p.name) \o (IF p.optional THEN "?" ELSE "") \o ": "
        \o Render(p.inner_type)

\* Display of a TypeBody: {{ members|join(",\n") }}
RenderTypeBody(b) ==
    JoinText([i \in DOMAIN b.members |-> RenderPropertySignature(b.members[i])], ",\n")

\* Display of TypeParameters: <{{ identifiers|join(", ") }}>
RenderTypeParameters(p) == "<" \o JoinText(p.identifiers, ", ") \o ">"

\* the display_opt filter on ObjectType.body
display_opt(body) == IF body.some THEN RenderTypeBody(body.v) ELSE ""

\* Display of a TsType, by the templates of types.rs
Render(t) ==
    CASE t.k = "Predefined" -> t.name
      [] t.k = "TypeReference" ->
            t.name \o (IF t.args = <<>> THEN "" ELSE "< " \o Join(t.args, ", ") \o " >")
      [] t.k = "ArrayType" -> Render(t.args[1]) \o "[]"
      [] t.k = "TupleType" -> "[ " \o Join(t.args, ", ") \o " ]"
      [] t.k = "UnionType" -> Join(t.args, " | ")
      [] t.k = "ObjectType" -> "{" \o display_opt(t.body) \o "}"
      [] OTHER -> ""

(***************************************************************************)
(* SolverResult<TsType, TsExportError> and Solved<T>.  tag "Panic" is the  *)
(* call unwinding (an index out of bounds, an unwrap of an Err).           *)
(***************************************************************************)
NoSolved == [inner |-> NoType, import_entries |-> {}, generic_constraints |-> {}]
Continue == [tag |-> "Continue", solved |-> NoSolved, error |-> NoError, about |-> NoType]
SolvedAs(inner, imports, constraints) ==
    [tag |-> "Solved",
     solved |-> [inner |-> inner, import_entries |-> imports, generic_constraints |-> constraints],
     error |-> NoError, about |-> NoType]
SolverError(kind, about) ==
    [tag |-> "Error", solved |-> NoSolved,
     error |-> [kind |-> kind, path |-> <<>>, ident |-> 0], about |-> about]
Panic == [tag |-> "Panic", solved |-> NoSolved, error |-> NoError, about |-> NoType]
Idle == [tag |-> "Idle", solved |-> NoSolved, error |-> NoError, about |-> NoType]

\* GenericConstraints::add_extends_constraint(ident, ty)
ExtendsConstraint(ident, t) == [ident |-> ident, extends |-> t]

\* TSIdent::from_str(text): the text of a bare name is an identifier, the
\* text of a composite type ("T[]", "[ A, B ]", "A | B", "R< A >") is none
TSIdentFromStr(t) ==
    IF t.k = "Predefined" \/ (t.k = "TypeReference" /\ t.args = <<>>)
    THEN Some(Render(t))
    ELSE None

(***************************************************************************)
(* The solver chain.                                                       *)
(***************************************************************************)
\* solving_context.add_solver(..) x 9, in the order ProcessModule::launch calls them
solving_context_import_before_collections ==
    <<"Tuple", "Reference", "Array", "Import", "Collections", "Primitives",
      "Option", "Generics", "Chrono">>

solving_context ==
    <<"Tuple", "Reference", "Array", "Collections", "Primitives", "Option",
      "Generics", "Chrono", "Import">>

\* add_entry that leaves a key already present as it is
add_entry_keep_first(entries, ident, solver) ==
    [n \in DOMAIN entries \cup {ident} |-> IF n \in DOMAIN entries THEN entries[n] ELSE solver]

\* PathSolver::add_entry
add_entry(entries, ident, solver) ==
    [n \in DOMAIN entries \cup {ident} |-> IF n = ident THEN solver ELSE entries[n]]

\* CollectionsSolver::default().inner.entries
CollectionsEntries ==
    LET e0 == [n \in {} |-> ""]
        e1 == add_entry(e0, "std::vec::Vec", "solve_seq")
        e2 == add_entry(e1, "std::collections::VecDeque", "solve_seq")
        e3 == add_entry(e2, "std::collections::HashSet", "solve_seq")
        e4 == add_entry(e3, "std::collections::LinkedList", "solve_seq")
        e5 == add_entry(e4, "std::collections::BTreeSet", "solve_seq")
        e6 == add_entry(e5, "std::collections::BinaryHeap", "solve_seq")
        e7 == add_entry(e6, "std::collections::HashMap", "solve_map")
    IN add_entry(e7, "std::collections::BTreeMap", "solve_map")

PrimitiveNames == {"u32", "std::string::String"}
PrimitiveType(name) == IF name = "u32" THEN Predefined("number") ELSE Predefined("string")

RECURSIVE SolveType(_, _)
RECURSIVE SolveFrom(_, _, _)
RECURSIVE Apply(_, _, _)
RECURSIVE SolveEach(_, _)

\* resolve every type of a list in order, merging imports and constraints; the
\* first failure ends it
SolveEach(types, gen) ==
    IF types = <<>> THEN SolvedAs(<<>>, {}, {})
    ELSE LET r == SolveType(Head(types), gen) IN
         IF r.tag # "Solved" THEN r
         ELSE LET rest == SolveEach(Tail(types), gen) IN
              IF rest.tag # "Solved" THEN rest
              ELSE SolvedAs(<<r.solved.inner>> \o rest.solved.inner,
                            r.solved.import_entries \cup rest.solved.import_entries,
                            r.solved.generic_constraints \cup rest.solved.generic_constraints)

\* utils::inner_generic::solve_segment_generics: a segment without angle
\* brackets has no generics to solve
solve_segment_generics(t, gen) ==
    IF t.args = <<>> THEN SolverError("MalformedContainer", t) ELSE SolveEach(t.args, gen)

\* ArraySolver::solve_as_type with the shape of the element left unchecked
ArraySolverAnyShape(t, gen) ==
    IF t.k \notin {"Array", "Slice"} THEN Continue
    ELSE LET result == SolveType(t.args[1], gen) IN
         IF result.tag = "Solved" THEN SolvedAs(ArrayType(result.solved.inner), {}, {})
         ELSE result

\* ArraySolver::solve_as_type
ArraySolver(t, gen) ==
    IF t.k \notin {"Array", "Slice"} THEN Continue
    ELSE LET result == SolveType(t.args[1], gen) IN
         CASE result.tag = "Solved" /\ IsPrimaryType(result.solved.inner) ->
                  SolvedAs(ArrayType(result.solved.inner), {}, {})
           [] result.tag = "Solved" /\ ~IsPrimaryType(result.solved.inner) ->
                  SolverError("UnexpectedType", result.solved.inner)
           [] OTHER -> result

\* collections.rs solve_seq
solve_seq(t, gen) ==
    IF t.k # "Path" THEN Continue
    ELSE LET r == solve_segment_generics(t, gen) IN
         IF r.tag # "Solved" THEN r
         ELSE LET types == r.solved.inner IN
              IF IsPrimaryType(types[1])
              THEN SolvedAs(ArrayType(types[1]), r.solved.import_entries,
                            r.solved.generic_constraints)
              ELSE SolverError("UnexpectedType", types[1])

\* collections.rs solve_map
solve_map(t, gen) ==
    IF t.k # "Path" THEN Continue
    ELSE LET r == solve_segment_generics(t, gen) IN
         IF r.tag # "Solved" THEN r
         ELSE LET inner == r.solved.inner
                  first == inner[1]
                  ident == TSIdentFromStr(first)
              IN IF Len(inner) < 2 \/ ~ident.some THEN Panic
                 ELSE SolvedAs(TypeReference("Record", <<inner[1], inner[2]>>),
                               r.solved.import_entries,
                               r.solved.generic_constraints
                                   \cup {ExtendsConstraint(ident.v, Predefined("string"))})

\* PathSolver::solve_as_type over entries
PathSolver(entries, t, gen) ==
    IF t.k # "Path" THEN Continue
    ELSE LET ident == t.name IN
         IF ident \in DOMAIN entries THEN Apply(entries[ident], t, gen) ELSE Continue

\* CollectionsSolver::solve_as_type
CollectionsSolver(t, gen) == PathSolver(CollectionsEntries, t, gen)

\* TupleSolver
TupleSolver(t, gen) ==
    IF t.k # "Tuple" THEN Continue
    ELSE LET r == SolveEach(t.args, gen) IN
         IF r.tag # "Solved" THEN r
         ELSE SolvedAs(TupleType(r.solved.inner), r.solved.import_entries,
                       r.solved.generic_constraints)

\* ReferenceSolver
ReferenceSolver(t, gen) == IF t.k # "Reference" THEN Continue ELSE SolveType(t.args[1], gen)

\* PrimitivesSolver
PrimitivesSolver(t, gen) ==
    IF t.k = "Path" /\ t.name \in PrimitiveNames /\ t.args = <<>>
    THEN SolvedAs(PrimitiveType(t.name), {}, {})
    ELSE Continue

\* OptionSolver
OptionSolver(t, gen) ==
    IF t.k = "Path" /\ t.name = "std::option::Option"
    THEN LET r == solve_segment_generics(t, gen) IN
         IF r.tag # "Solved" THEN r
         ELSE SolvedAs(UnionType(<<r.solved.inner[1], Predefined("null")>>),
                       r.solved.import_entries, r.solved.generic_constraints)
    ELSE Continue

\* GenericsSolver
GenericsSolver(t, gen) ==
    IF t.k = "Path" /\ t.name \in gen /\ t.args = <<>>
    THEN SolvedAs(TypeReference(t.name, <<>>), {}, {})
    ELSE Continue

\* ChronoSolver
ChronoSolver(t, gen) ==
    IF t.k = "Path" /\ t.name = "chrono::NaiveDate" /\ t.args = <<>>
    THEN SolvedAs(Predefined("string"), {}, {})
    ELSE Continue

\* ImportSolver: any path left is a reference to a type declared elsewhere
ImportSolver(t, gen) ==
    IF t.k # "Path" THEN Continue
    ELSE IF t.args = <<>> THEN SolvedAs(TypeReference(t.name, <<>>), {t.name}, {})
    ELSE LET r == SolveEach(t.args, gen) IN
         IF r.tag # "Solved" THEN r
         ELSE SolvedAs(TypeReference(t.name, r.solved.inner),
                       r.solved.import_entries \cup {t.name}, r.solved.generic_constraints)

\* TypeSolver::solve_as_type of the solver registered under this name
Apply(solver, t, gen) ==
    CASE solver = "Tuple" -> TupleSolver(t, gen)
      [] solver = "Reference" -> ReferenceSolver(t, gen)
      [] solver = "Array" -> ArraySolver(t, gen)
      [] solver = "Collections" -> CollectionsSolver(t, gen)
      [] solver = "Primitives" -> PrimitivesSolver(t, gen)
      [] solver = "Option" -> OptionSolver(t, gen)
      [] solver = "Generics" -> GenericsSolver(t, gen)
      [] solver = "Chrono" -> ChronoSolver(t, gen)
      [] solver = "Import" -> ImportSolver(t, gen)
      [] solver = "solve_seq" -> solve_seq(t, gen)
      [] solver = "solve_map" -> solve_map(t, gen)

\* the solvers from the i-th on, in registration order: first non-Continue wins
SolveFrom(i, t, gen) ==
    IF i > Len(solving_context) THEN SolverError("UnresolvableType", t)
    ELSE LET r == Apply(solving_context[i], t, gen) IN
         IF r.tag # "Continue" THEN r ELSE SolveFrom(i + 1, t, gen)

\* ExporterContext::solve_type
SolveType(t, gen) == SolveFrom(1, t, gen)

(***************************************************************************)
(* Process::launch on one content.                                         *)
(***************************************************************************)
InitProcess ==
    /\ \E n \in 0..MaxItems : \E depth \in Shapes(n) : \E label \in [1..n -> Labels] :
          /\ WellFormed(n, depth, label)
          /\ content = Items(depth, label, 1, n, 1)
    /\ pc = "start"
    /\ all_results = <<>>
    /\ sink = <<>>
    /\ ret = Ok(<<>>)

IdleSolve ==
    /\ ty = [k |-> "Never", name |-> "", args |-> <<>>]
    /\ generics = {}
    /\ op = "off"
    /\ out = Idle

IdleRender ==
    /\ target = [form |-> "none", v |-> NoType]
    /\ text = ""

IdlePath ==
    /\ self_entries = <<>>
    /\ added = <<>>

\* syn::parse_file(&self.content)? fails
ParseFails ==
    /\ pc = "start"
    /\ pc' = "done"
    /\ ret' = Err(ParseError)
    /\ UNCHANGED <<content, all_results, sink, solveVars, renderVars, pathVars>>

\* parse_file succeeds; ProcessModule::new(path, ast.items).launch(..)?; extractor
Walk ==
    /\ pc = "start"
    /\ LET res == LaunchModule(<<>>, content)
       IN IF res.ok
          THEN /\ all_results' = extractor(res.v)
               /\ pc' = "export"
               /\ ret' = ret
          ELSE /\ all_results' = all_results
               /\ pc' = "done"
               /\ ret' = Err(res.e)
    /\ UNCHANGED <<content, sink, solveVars, renderVars, pathVars>>

\* one turn of all_results.into_iter().for_each(|d| self.exporter.export_module(d))
ExportModule ==
    /\ pc = "export"
    /\ all_results # <<>>
    /\ sink' = Append(sink, Head(all_results))
    /\ all_results' = Tail(all_results)
    /\ UNCHANGED <<content, pc, ret, solveVars, renderVars, pathVars>>

\* Ok(())
Return ==
    /\ pc = "export"
    /\ all_results = <<>>
    /\ pc' = "done"
    /\ ret' = Ok(<<>>)
    /\ UNCHANGED <<content, all_results, sink, solveVars, renderVars, pathVars>>

Init == InitProcess /\ IdleSolve /\ IdleRender /\ IdlePath

Next == ParseFails \/ Walk \/ ExportModule \/ Return

Spec == Init /\ [][Next]_vars

(***************************************************************************)
(* Solver calls on one TypeInfo.                                           *)
(***************************************************************************)
IdleProcess ==
    /\ content = <<>>
    /\ pc = "off"
    /\ all_results = <<>>
    /\ sink = <<>>
    /\ ret = Ok(<<>>)

InitSolve ==
    /\ \E n \in 1..MaxTypeNodes : \E depth \in TypeShapes(n) : \E label \in [1..n -> TypeLabels] :
          /\ WellFormedType(n, depth, label)
          /\ ty = TypeAt(depth, label, 1, n)
    /\ generics \in {{}, {"T"}}
    /\ op = "idle"
    /\ out = Idle
    /\ IdleProcess
    /\ IdleRender
    /\ IdlePath

Call(name, result) ==
    /\ op = "idle"
    /\ op' = name
    /\ out' = result
    /\ UNCHANGED <<ty, generics, procVars, renderVars, pathVars>>

CallSolveType == Call("solve_type", SolveType(ty, generics))
CallArraySolver == Call("ArraySolver", ArraySolver(ty, generics))
CallCollectionsSolver == Call("CollectionsSolver", CollectionsSolver(ty, generics))
CallSolveSeq == Call("solve_seq", solve_seq(ty, generics))
CallSolveMap == Call("solve_map", solve_map(ty, generics))

NextSolve ==
    CallSolveType \/ CallArraySolver \/ CallCollectionsSolver \/ CallSolveSeq \/ CallSolveMap

SpecSolve == InitSolve /\ [][NextSolve]_vars

(***************************************************************************)
(* to_string() of one target-type value.                                   *)
(***************************************************************************)
\* every sequence of at most n members of S
SeqsUpTo(S, n) == UNION { [1..k -> S] : k \in 0..n }

PropertyNames == {Identifier("test"), StringLiteral("test_other")}

PropertySignatures(S) ==
    { PropertySignature(name, optional, t) : name \in PropertyNames, optional \in BOOLEAN, t \in S }

\* the composite TsTypes whose components are taken from S
Composites(S) ==
    { ArrayType(p) : p \in { t \in S : IsPrimaryType(t) } }
    \cup { TupleType(m) : m \in SeqsUpTo(S, MaxMembers) }
    \cup { UnionType(m) : m \in SeqsUpTo(S, MaxMembers) }
    \cup { TypeReference("MyType", m) : m \in SeqsUpTo(S, MaxMembers) \ {<<>>} }
    \cup { ObjectType(NoBody) }
    \cup { ObjectType(Some(TypeBody(m))) : m \in SeqsUpTo(PropertySignatures(S), MaxMembers) }

\* the TsTypes of at most d levels of composites
RECURSIVE TsTypes(_)
TsTypes(d) ==
    IF d = 0
    THEN { Predefined("any"), Predefined("number") }
    ELSE TsTypes(d - 1) \cup Composites(TsTypes(d - 1))

IdleSolveRender ==
    /\ ty = [k |-> "Never", name |-> "", args |-> <<>>]
    /\ generics = {}
    /\ op = "idle"
    /\ out = Idle

InitRender ==
    /\ LET S == TsTypes(MaxNesting - 1) IN
       \/ \E t \in S : target = [form |-> "TsType", v |-> t]
       \/ \E p \in S : IsPrimaryType(p) /\ target = [form |-> "TsType", v |-> ArrayType(p)]
       \/ \E n \in 0..MaxMembers : \E m \in [1..n -> S] :
             \/ target = [form |-> "TsType", v |-> TupleType(m)]
             \/ target = [form |-> "TsType", v |-> UnionType(m)]
             \/ n > 0 /\ target = [form |-> "TsType", v |-> TypeReference("MyType", m)]
       \/ target = [form |-> "TsType", v |-> ObjectType(NoBody)]
       \/ \E n \in 0..MaxMembers : \E m \in [1..n -> PropertySignatures(S)] :
             \/ target = [form |-> "TsType", v |-> ObjectType(Some(TypeBody(m)))]
             \/ target = [form |-> "TypeBody", v |-> TypeBody(m)]
       \/ \E p \in PropertySignatures(S) : target = [form |-> "PropertySignature", v |-> p]
       \/ \E n \in 0..MaxMembers : \E m \in [1..n -> {"A", "B"}] :
             target = [form |-> "TypeParameters", v |-> TypeParameters(m)]
    /\ text = ""
    /\ IdleSolveRender
    /\ IdleProcess
    /\ IdlePath

\* Display::fmt of the value, by its type
Display(x) ==
    CASE x.form = "TsType" -> Render(x.v)
      [] x.form = "TypeBody" -> RenderTypeBody(x.v)
      [] x.form = "PropertySignature" -> RenderPropertySignature(x.v)
      [] x.form = "TypeParameters" -> RenderTypeParameters(x.v)

\* target.to_string()
to_string ==
    /\ op = "idle"
    /\ op' = "to_string"
    /\ text' = Display(target)
    /\ UNCHANGED <<target, ty, generics, out, procVars, pathVars>>

NextRender == to_string

SpecRender == InitRender /\ [][NextRender]_vars

(***************************************************************************)
(* A PathSolver: add_entry calls, then solve_as_type on one TypeInfo.      *)
(***************************************************************************)
\* the add_entry calls of CollectionsSolver::default, in order
DefaultCalls ==
    <<[ident |-> "std::vec::Vec", solver |-> "solve_seq"],
      [ident |-> "std::collections::VecDeque", solver |-> "solve_seq"],
      [ident |-> "std::collections::HashSet", solver |-> "solve_seq"],
      [ident |-> "std::collections::LinkedList", solver |-> "solve_seq"],
      [ident |-> "std::collections::BTreeSet", solver |-> "solve_seq"],
      [ident |-> "std::collections::BinaryHeap", solver |-> "solve_seq"],
      [ident |-> "std::collections::HashMap", solver |-> "solve_map"],
      [ident |-> "std::collections::BTreeMap", solver |-> "solve_map"]>>

\* the keys and solvers an owner registers
EntryKeys == {"std::vec::Vec", "Foo"}
EntrySolvers == {"solve_seq", "solve_map", "Array"}

\* PathSolver::default(), and the TypeInfo it will be asked about
InitPath ==
    /\ self_entries = <<>>
    /\ added = <<>>
    /\ \E n \in 1..MaxPathTypeNodes : \E depth \in TypeShapes(n) : \E label \in [1..n -> TypeLabels] :
          /\ WellFormedType(n, depth, label)
          /\ ty = TypeAt(depth, label, 1, n)
    /\ generics \in {{}, {"T"}}
    /\ op = "idle"
    /\ out = Idle
    /\ IdleProcess
    /\ IdleRender

\* self.add_entry(ident, solver)
AddEntry ==
    /\ op = "idle"
    /\ Len(added) < MaxAdded
    /\ \E ident \in EntryKeys : \E solver \in EntrySolvers :
          /\ self_entries' = add_entry(self_entries, ident, solver)
          /\ added' = Append(added, [ident |-> ident, solver |-> solver])
    /\ UNCHANGED <<ty, generics, op, out, procVars, renderVars>>

\* CollectionsSolver::default(): the eight add_entry calls on a new PathSolver
CollectionsDefault ==
    /\ op = "idle"
    /\ added = <<>>
    /\ self_entries' = CollectionsEntries
    /\ added' = DefaultCalls
    /\ UNCHANGED <<ty, generics, op, out, procVars, renderVars>>

\* self.solve_as_type(solving_context, solver_info)
SolveAsType ==
    /\ op = "idle"
    /\ op' = "PathSolver"
    /\ out' = PathSolver(self_entries, ty, generics)
    /\ UNCHANGED <<ty, generics, procVars, renderVars, pathVars>>

NextPath == AddEntry \/ CollectionsDefault \/ SolveAsType

SpecPath == InitPath /\ [][NextPath]_vars

(***************************************************************************)
(* What the claims speak of, read off the input alone.                     *)
(***************************************************************************)
HasBody(it) == it.kind = "Mod" /\ it.attr \in {"inline", "file"}
Declined(it) == it.kind = "Mod" /\ it.attr = "absent"
IsDeclaration(it) == it.kind \in {"Type", "Struct", "Enum"}
FailsToResolve(it) == it.kind \in {"Type", "Struct", "Enum"} /\ it.attr = "err"

\* every module reachable from the module (path, items), itself included
RECURSIVE ModulesOf(_, _)
ModulesOf(path, items) ==
    { [path |-> path, items |-> items] }
    \cup UNION { ModulesOf(Append(path, items[i].ident), items[i].items) :
                 i \in { k \in DOMAIN items : HasBody(items[k]) } }

ReachableModules == ModulesOf(<<>>, content)
ReachablePaths == { m.path : m \in ReachableModules }
ItemsAt(path) == (CHOOSE m \in ReachableModules : m.path = path).items

IsProperPrefix(p, q) == Len(p) < Len(q) /\ SubSeq(q, 1, Len(p)) = p
Parent(p) == SubSeq(p, 1, Len(p) - 1)
RemoveAt(seq, k) == SubSeq(seq, 1, k - 1) \o SubSeq(seq, k + 1, Len(seq))
DeclIndex(items, name) == CHOOSE k \in DOMAIN items : items[k].ident = name
SameResult(a, b) == a.ok = b.ok /\ (IF a.ok THEN a.v = b.v ELSE a.e = b.e)
Succeeded == pc = "done" /\ ret.ok
SinkPaths == [i \in DOMAIN sink |-> sink[i].path]

RECURSIVE NodePaths(_)
NodePaths(node) ==
    {node.data.path} \cup UNION { NodePaths(node.children[i]) : i \in DOMAIN node.children }

RECURSIVE NodeCount(_, _)
NodeCount(children, n) ==
    IF children = <<>> THEN n
    ELSE NodeCount(Head(children).children \o Tail(children), n + 1)

(***************************************************************************)
(* C1: the sink receives the modules in post-order: when a module is       *)
(* exported every reachable module below it has been exported already,     *)
(* sibling modules are exported in the order they are declared, and on a   *)
(* successful run the root is the last module exported.                    *)
(***************************************************************************)
C1_PostOrderDelivery ==
    /\ \A j \in DOMAIN sink : \A q \in ReachablePaths :
           IsProperPrefix(sink[j].path, q) => \E i \in 1..(j - 1) : sink[i].path = q
    /\ \A i, j \in DOMAIN sink :
           ( /\ sink[i].path # <<>> /\ sink[j].path # <<>>
             /\ Parent(sink[i].path) = Parent(sink[j].path)
             /\ sink[i].path[Len(sink[i].path)] < sink[j].path[Len(sink[j].path)] )
           => i < j
    /\ Succeeded => sink # <<>> /\ sink[Len(sink)].path = <<>>

\* root items [Alias A, Mod m{Alias B}, Struct C] were delivered as B, then A, C
C1_Witness ==
    /\ Succeeded
    /\ Len(content) = 3
    /\ content[1].kind = "Type" /\ content[2].kind = "Mod" /\ content[3].kind = "Struct"
    /\ Len(sink) = 2
    /\ sink[1] = [statements |-> <<[name |-> 1, of |-> "Type"]>>, path |-> <<2>>]
    /\ sink[2].statements = <<[name |-> 1, of |-> "Type"], [name |-> 3, of |-> "Struct"]>>

InDeclarationOrder(items, statements) ==
    \A i, j \in DOMAIN statements :
        i < j => DeclIndex(items, statements[i].name) < DeclIndex(items, statements[j].name)

(***************************************************************************)
(* C2: the statement list ProcessModule::launch returns for a module is in *)
(* the order of the original item indices of its declarations, whatever    *)
(* the interleaving of aliases and struct/enum declarations.               *)
(***************************************************************************)
C2_DeclarationOrder ==
    /\ pc = "done" =>
          \A m \in ReachableModules :
              LET r == LaunchModule(m.path, m.items)
              IN r.ok => InDeclarationOrder(m.items, r.v.data.statements)
    /\ \A i \in DOMAIN sink : InDeclarationOrder(ItemsAt(sink[i].path), sink[i].statements)

\* a module was exported in which a struct/enum is declared before an alias
C2_Witness ==
    /\ Succeeded
    /\ \E k \in DOMAIN sink : \E i, j \in DOMAIN sink[k].statements :
          /\ i < j
          /\ sink[k].statements[i].of \in {"Struct", "Enum"}
          /\ sink[k].statements[j].of = "Type"

(***************************************************************************)
(* C3: a bodiless module the spawner declines adds no result node and no   *)
(* error: its parent's launch gives what it gives for the same items       *)
(* without that module declaration (same statements, same child subtrees,  *)
(* or the same error), and nothing is exported for the declined path.      *)
(***************************************************************************)
C3_DeclineDropsBranch ==
    /\ pc = "done" =>
          \A m \in ReachableModules : \A k \in DOMAIN m.items :
              Declined(m.items[k]) =>
                  SameResult(LaunchModule(m.path, m.items),
                             LaunchModule(m.path, RemoveAt(m.items, k)))
    /\ \A i \in DOMAIN sink :
          sink[i].path # <<>> =>
              ~Declined(ItemsAt(Parent(sink[i].path))[sink[i].path[Len(sink[i].path)]])

\* a successful run whose root declares a declined module, a sibling module that
\* was exported with a statement, and a declaration of its own
C3_Witness ==
    /\ Succeeded
    /\ \E k \in DOMAIN content : Declined(content[k])
    /\ \E i \in DOMAIN sink : sink[i].path # <<>> /\ sink[i].statements # <<>>
    /\ sink[Len(sink)].statements # <<>>

(***************************************************************************)
(* C4: on a successful run the result tree has exactly one node per        *)
(* reachable module and export_module is called exactly once for each of   *)
(* them, those without statements included, and for no other path.         *)
(***************************************************************************)
C4_OneNodeOneExportPerModule ==
    /\ pc = "done" =>
          LET r == LaunchModule(<<>>, content)
          IN r.ok => /\ NodePaths(r.v) = ReachablePaths
                     /\ NodeCount(<<r.v>>, 0) = Cardinality(ReachablePaths)
    /\ \A i \in DOMAIN sink : sink[i].path \in ReachablePaths
    /\ \A i, j \in DOMAIN sink : sink[i].path = sink[j].path => i = j
    /\ Succeeded => { sink[i].path : i \in DOMAIN sink } = ReachablePaths

\* three modules were exported, one of them supplied by the spawner and one
\* without any statement
C4_Witness ==
    /\ Succeeded
    /\ Len(sink) >= 3
    /\ \E i \in DOMAIN sink : sink[i].statements = <<>>
    /\ \E k \in DOMAIN content : content[k].kind = "Mod" /\ content[k].attr = "file"

DeclarationCount(items) == Cardinality({ k \in DOMAIN items : IsDeclaration(items[k]) })

(***************************************************************************)
(* C5: in a successful launch every struct, enum and alias of a module     *)
(* yields exactly one statement of that module: the statement count equals *)
(* the number of struct/enum/alias items.                                  *)
(***************************************************************************)
C5_OneStatementPerDeclaration ==
    /\ \A i \in DOMAIN sink :
          Len(sink[i].statements) = DeclarationCount(ItemsAt(sink[i].path))
    /\ \A i \in DOMAIN all_results :
          Len(all_results[i].statements) = DeclarationCount(ItemsAt(all_results[i].path))

FailingErrors ==
    UNION { { ResolveError(m.path, m.items[k].ident) :
                k \in { i \in DOMAIN m.items : FailsToResolve(m.items[i]) } }
            : m \in ReachableModules }

(***************************************************************************)
(* C6: if the content does not parse, or a declaration of any reachable    *)
(* module fails to resolve, launch returns that error and export_module is *)
(* never called.                                                           *)
(***************************************************************************)
C6_ErrorExportsNothing ==
    /\ (pc = "done" /\ ~ret.ok) => sink = <<>>
    /\ (\E m \in ReachableModules : \E k \in DOMAIN m.items : FailsToResolve(m.items[k]))
          => /\ sink = <<>>
             /\ pc # "start" => pc = "done" /\ ~ret.ok /\ ret.e \in FailingErrors \cup {ParseError}
    /\ (pc = "done" /\ ret.ok) => FailingErrors = {}

\* the run failed on a declaration of the second nested module, after the first
\* nested module and its declaration had been resolved; nothing was exported
C6_Witness ==
    /\ pc = "done" /\ ~ret.ok /\ ret.e.kind = "resolve"
    /\ Len(content) = 2
    /\ HasBody(content[1]) /\ Len(content[1].items) = 1 /\ content[1].items[1].attr = "ok"
    /\ ret.e.path = <<2>>
    /\ sink = <<>>

PriorityOrder ==
    <<"Tuple", "Reference", "Array", "Collections", "Primitives", "Option",
      "Generics", "Chrono", "Import">>

Deciders(t, gen) ==
    { i \in DOMAIN PriorityOrder : Apply(PriorityOrder[i], t, gen).tag # "Continue" }

Lowest(S) == CHOOSE i \in S : \A j \in S : i <= j

(***************************************************************************)
(* C7: the nine built-in solvers are registered in the priority order      *)
(* Tuple, Reference, Array, Collections, Primitives, Option, Generics,     *)
(* Date/time, Named-path fallback, so a type expression is decided by the  *)
(* first solver in that order that does not return Continue; the           *)
(* named-path fallback decides only when the eight others returned         *)
(* Continue.                                                               *)
(***************************************************************************)
C7_PriorityOrderDecides ==
    op = "solve_type" =>
        LET D == Deciders(ty, generics) IN
        IF D = {}
        THEN out.tag = "Error" /\ out.error.kind = "UnresolvableType" /\ out.about = ty
        ELSE out = Apply(PriorityOrder[Lowest(D)], ty, generics)

\* Vec<u32>, which the collections solver and the named-path fallback both
\* accept, was decided by the collections solver
C7_Witness ==
    /\ op = "solve_type"
    /\ ty = [k |-> "Path", name |-> "std::vec::Vec",
             args |-> <<[k |-> "Path", name |-> "u32", args |-> <<>>]>>]
    /\ Deciders(ty, generics) = {4, 9}
    /\ out.tag = "Solved"
    /\ out.solved.inner = ArrayType(Predefined("number"))

(***************************************************************************)
(* C8: ArraySolver returns Continue for what is neither an array nor a     *)
(* slice; for an array or slice it resolves the element under the same     *)
(* generics and returns Solved(ArrayType of P) when the element resolved   *)
(* to a primary type P, Error(UnexpectedType) carrying the shape when it   *)
(* resolved to a union, and the element's own error when its resolution    *)
(* failed.  It never returns a Solved array of a union.                    *)
(***************************************************************************)
C8_ArraySolverOutcomes ==
    op = "ArraySolver" =>
        /\ ty.k \notin {"Array", "Slice"} => out = Continue
        /\ ty.k \in {"Array", "Slice"} =>
              LET elem == SolveType(ty.args[1], generics) IN
              /\ (elem.tag = "Solved" /\ IsPrimaryType(elem.solved.inner)) =>
                     out.tag = "Solved" /\ out.solved.inner = ArrayType(elem.solved.inner)
              /\ (elem.tag = "Solved" /\ ~IsPrimaryType(elem.solved.inner)) =>
                     /\ out.tag = "Error"
                     /\ out.error.kind = "UnexpectedType"
                     /\ out.about = elem.solved.inner
              /\ elem.tag = "Error" => out = elem
        /\ ~(out.tag = "Solved" /\ out.solved.inner.k = "ArrayType"
             /\ out.solved.inner.args[1].k = "UnionType")

\* an array of Option<u32> was refused with UnexpectedType(number | null)
C8_Witness ==
    /\ op = "ArraySolver"
    /\ ty.k = "Array"
    /\ out.tag = "Error"
    /\ out.error.kind = "UnexpectedType"
    /\ out.about = UnionType(<<Predefined("number"), Predefined("null")>>)

Resolves(t, gen) == SolveType(t, gen).tag = "Solved"

CatalogUse(t, gen) ==
    /\ t.k = "Path"
    /\ \/ t.name \in SeqNames /\ Len(t.args) = 1
       \/ t.name \in MapNames /\ Len(t.args) = 2
    /\ \A i \in DOMAIN t.args : Resolves(t.args[i], gen)

(***************************************************************************)
(* C9: for a path that is one of the eight catalog containers, used with   *)
(* type arguments that resolve, CollectionsSolver ends in Solved, never in *)
(* Continue and never in Error, whatever the shape of the resolved         *)
(* element.  (Stated as the two outcomes it excludes; a call that unwinds  *)
(* is neither.)                                                            *)
(***************************************************************************)
C9_CatalogAlwaysSolved ==
    (op = "CollectionsSolver" /\ CatalogUse(ty, generics))
        => out.tag # "Continue" /\ out.tag # "Error"

(***************************************************************************)
(* C10: for a map-like container whose two type arguments resolve,         *)
(* solve_map returns Solved with the TypeReference Record over (resolved   *)
(* key, resolved value) in that order, and the extends-string bound it     *)
(* adds is on the key-position generic parameter, a generic in scope,      *)
(* never on the rendering of a concrete key type.                          *)
(***************************************************************************)
C10_RecordBoundOnKeyGeneric ==
    ( /\ op = "solve_map"
      /\ ty.k = "Path" /\ ty.name \in MapNames /\ Len(ty.args) = 2
      /\ \A i \in DOMAIN ty.args : Resolves(ty.args[i], generics) )
    => LET key == SolveType(ty.args[1], generics).solved.inner
           value == SolveType(ty.args[2], generics).solved.inner
       IN /\ out.tag = "Solved"
          /\ out.solved.inner = TypeReference("Record", <<key, value>>)
          /\ (ty.args[1].k = "Path" /\ ty.args[1].name \in generics) =>
                 ExtendsConstraint(ty.args[1].name, Predefined("string"))
                     \in out.solved.generic_constraints
          /\ \A c \in out.solved.generic_constraints : c.ident \in generics

\* the side channels of the resolved type arguments of t, merged
NestedChannels(t, gen) == SolveEach(t.args, gen).solved

(***************************************************************************)
(* C11: a solver that recurses into a nested type carries the nested       *)
(* result's side channels into its own Solved output: solve_seq returns    *)
(* the import and constraint sets of the resolved type arguments,          *)
(* solve_map their import set and their constraint set plus the key's      *)
(* extends-string bound, and ArraySolver's output holds the imports and    *)
(* constraints of the resolved element.                                    *)
(***************************************************************************)
C11_SideChannelsPropagate ==
    out.tag = "Solved" =>
        /\ op = "solve_seq" =>
              /\ out.solved.import_entries = NestedChannels(ty, generics).import_entries
              /\ out.solved.generic_constraints = NestedChannels(ty, generics).generic_constraints
        /\ op = "solve_map" =>
              /\ out.solved.import_entries = NestedChannels(ty, generics).import_entries
              /\ \E bound \in out.solved.generic_constraints :
                    /\ bound.extends = Predefined("string")
                    /\ out.solved.generic_constraints =
                           NestedChannels(ty, generics).generic_constraints \cup {bound}
        /\ op = "ArraySolver" =>
              /\ NestedChannels(ty, generics).import_entries \subseteq out.solved.import_entries
              /\ NestedChannels(ty, generics).generic_constraints
                     \subseteq out.solved.generic_constraints

\* a catalog container written with a number of type arguments it does not take
WrongArity(t) ==
    /\ t.k = "Path"
    /\ \/ t.name \in SeqNames /\ Len(t.args) # 1
       \/ t.name \in MapNames /\ Len(t.args) # 2

(***************************************************************************)
(* C12: a sequence-like container with zero or more than one type          *)
(* argument, and a map-like container with fewer or more than two, make    *)
(* the collections solver return an Error (MalformedContainer when the     *)
(* arguments written do resolve), never Solved and never an unwinding.     *)
(***************************************************************************)
C12_WrongArityIsError ==
    (op = "CollectionsSolver" /\ WrongArity(ty)) =>
        /\ out.tag = "Error"
        /\ (\A i \in DOMAIN ty.args : Resolves(ty.args[i], generics))
              => out.error.kind = "MalformedContainer"

\* the first n of the texts written one after another with sep between neighbours
RECURSIVE Interleaved(_, _, _)
Interleaved(texts, sep, n) ==
    IF n = 0 THEN ""
    ELSE IF n = 1 THEN texts[1]
    ELSE Interleaved(texts, sep, n - 1) \o sep \o texts[n]

\* the text of each member of a list of TsTypes
TextsOf(types) == [i \in DOMAIN types |-> Render(types[i])]

\* the text of a property name: bare, or in double quotes when a string literal
NameText(name) ==
    IF name.kind = "StringLiteral" THEN "\"" \o name.text \o "\"" ELSE name.text

\* name: T, or name?: T
SignatureText(p) ==
    IF p.optional THEN NameText(p.name) \o "?: " \o Render(p.inner_type)
    ELSE NameText(p.name) \o ": " \o Render(p.inner_type)

(***************************************************************************)
(* C13: the text of a target-type value is fixed by its structure: a union *)
(* is its members' texts joined by " | " in order, duplicates kept; an     *)
(* object without body is {}; a property signature is name: T, or name?: T *)
(* when optional, with a string-literal name in double quotes; a type body *)
(* is its members joined by a comma and a newline; an array is its         *)
(* element's text followed by []; a parameter list is <A, B>.              *)
(***************************************************************************)
C13_RenderingRules ==
    op = "to_string" =>
        LET v == target.v IN
        /\ (target.form = "TsType" /\ v.k = "UnionType") =>
               text = Interleaved(TextsOf(v.args), " | ", Len(v.args))
        /\ (target.form = "TsType" /\ v.k = "ObjectType" /\ ~v.body.some) => text = "{}"
        /\ (target.form = "TsType" /\ v.k = "ArrayType") => text = Render(v.args[1]) \o "[]"
        /\ target.form = "PropertySignature" => text = SignatureText(v)
        /\ target.form = "TypeBody" =>
               text = Interleaved([i \in DOMAIN v.members |-> SignatureText(v.members[i])],
                                  ",\n", Len(v.members))
        /\ target.form = "TypeParameters" =>
               text = "<" \o Interleaved(v.identifiers, ", ", Len(v.identifiers)) \o ">"
        /\ target = [form |-> "TsType",
                     v |-> UnionType(<<Predefined("number"), Predefined("number")>>)]
               => text = "number | number"
        /\ target = [form |-> "TypeParameters", v |-> TypeParameters(<<"A", "B">>)]
               => text = "<A, B>"
        /\ target = [form |-> "PropertySignature",
                     v |-> PropertySignature(Identifier("test"), TRUE, Predefined("number"))]
               => text = "test?: number"

\* the type body of display_type_body was rendered: an identifier and a quoted
\* name, neither optional, on two lines
C13_Witness ==
    /\ op = "to_string"
    /\ target = [form |-> "TypeBody",
                 v |-> TypeBody(<<PropertySignature(Identifier("test"), FALSE,
                                                    Predefined("number")),
                                  PropertySignature(StringLiteral("test_other"), FALSE,
                                                    Predefined("any"))>>)]
    /\ text = "test: number,\n\"test_other\": any"

\* the add_entry calls made for this key, by their place in the order of calls
CallsFor(key) == { i \in DOMAIN added : added[i].ident = key }

\* the solver of the latest add_entry call for this key
LastRegistered(key) ==
    added[CHOOSE i \in CallsFor(key) : \A j \in CallsFor(key) : j <= i].solver

(***************************************************************************)
(* C14: a PathSolver answers Continue for what is no path and for a path   *)
(* whose full text is no key of its entries, and for a key it answers what *)
(* the solver registered for it answers on the same TypeInfo; the solver   *)
(* of a key is the one of the latest add_entry call for it; and            *)
(* CollectionsSolver::default registers eight keys, six of them with the   *)
(* sequence solver and two with the map solver.                            *)
(***************************************************************************)
C14_PathSolverDefers ==
    /\ DOMAIN self_entries = { added[i].ident : i \in DOMAIN added }
    /\ \A key \in DOMAIN self_entries : self_entries[key] = LastRegistered(key)
    /\ op = "PathSolver" =>
          IF ty.k = "Path" /\ CallsFor(ty.name) # {}
          THEN out = Apply(LastRegistered(ty.name), ty, generics)
          ELSE out = Continue
    /\ added = DefaultCalls =>
          /\ Cardinality(DOMAIN self_entries) = 8
          /\ { key \in DOMAIN self_entries : self_entries[key] = "solve_seq" }
                 = {"std::vec::Vec", "std::collections::VecDeque", "std::collections::HashSet",
                    "std::collections::LinkedList", "std::collections::BTreeSet",
                    "std::collections::BinaryHeap"}
          /\ { key \in DOMAIN self_entries : self_entries[key] = "solve_map" }
                 = {"std::collections::HashMap", "std::collections::BTreeMap"}

\* std::vec::Vec was registered with the map solver and then with the sequence
\* solver, and Vec<u32> was solved as number[]
C14_Witness ==
    /\ op = "PathSolver"
    /\ added = <<[ident |-> "std::vec::Vec", solver |-> "solve_map"],
                 [ident |-> "std::vec::Vec", solver |-> "solve_seq"]>>
    /\ ty = [k |-> "Path", name |-> "std::vec::Vec",
             args |-> <<[k |-> "Path", name |-> "u32", args |-> <<>>]>>]
    /\ out.tag = "Solved"
    /\ out.solved.inner = ArrayType(Predefined("number"))

====
